---- MODULE Spec2Model ----
(***************************************************************************)
(* Model of src/app.py (onion-forum): the SQLite store with its schema     *)
(* migration (init_db), the CSRF/session bootstrap that runs before every  *)
(* request, and the three mutating routes create_thread, reply, comment.   *)
(*                                                                         *)
(* The store is a committed snapshot `db` plus the working copy `wtx` of   *)
(* the single connection that holds SQLite's write lock (`lock`).  Python  *)
(* sqlite3 opens a transaction implicitly before INSERT/UPDATE and keeps   *)
(* it until commit(); DDL runs in autocommit.  Readers see `db` only.      *)
(*                                                                         *)
(* Three parts of the file that do not touch the store have their own      *)
(* specifications: the secret resolved at process start (SpecSecret), the  *)
(* helper clamp_text (SpecClamp) and the page arithmetic of the two list   *)
(* views (SpecPage).                                                       *)
(***************************************************************************)
EXTENDS Integers, Sequences, FiniteSets, TLC

\* ---------------------------------------------------------------- bounds
MaxThreads == 2
MaxPosts == 3
MaxComments == 1
MaxTime == 1
NumReqs == 2
NumSessions == 2
MaxSecrets == 3
MaxText == 4
MaxClamp == 4
MaxRows == 101

Reqs == 1..NumReqs
Sessions == 1..NumSessions
Times == 0..MaxTime

\* ------------------------------------------------------------- constants
NULL == 0
TITLE_MAX == 140
AUTHOR_MAX == 32
POST_MAX == 5000
COMMENT_MAX == 2000

\* ------------------------------------------------------------------ text
\* Text is a sequence of one-character strings.
Whitespace == {" ", "\n"}
ELLIPSIS == "~"

RECURSIVE lstrip(_)
lstrip(s) ==
  IF s # <<>> /\ Head(s) \in Whitespace THEN lstrip(Tail(s)) ELSE s

RECURSIVE rstrip(_)
rstrip(s) ==
  IF s # <<>> /\ s[Len(s)] \in Whitespace
  THEN rstrip(SubSeq(s, 1, Len(s) - 1)) ELSE s

strip(s) == rstrip(lstrip(s))

\* max_len characters are kept in front of the ellipsis
clamp_text_OneTooMany(s, max_len) ==
  IF Len(s) <= max_len THEN s
  ELSE rstrip(SubSeq(s, 1, max_len)) \o <<ELLIPSIS>>

\* lines 206-207
clamp_text(s, max_len) ==
  IF Len(s) <= max_len THEN s
  ELSE rstrip(SubSeq(s, 1, max_len - 1)) \o <<ELLIPSIS>>

\* request.form.get(name): a field is absent (None) or carries a value
Absent == [present |-> FALSE, val |-> <<>>]
Field(v) == [present |-> TRUE, val |-> v]
\* (request.form.get(name) or "")
OrEmpty(f) == IF f.present THEN f.val ELSE <<>>

ANON == <<"a", "n", "o", "n">>

\* ------------------------------------------------- category_id parsing
AsciiDigits == {"0", "1", "2", "3", "4", "5", "6", "7", "8", "9"}
\* characters for which str.isdigit() is True but int() raises ValueError
SuperscriptDigits == {"^2"}
DigitVal ==
  ("0" :> 0) @@ ("1" :> 1) @@ ("2" :> 2) @@ ("3" :> 3) @@ ("4" :> 4) @@
  ("5" :> 5) @@ ("6" :> 6) @@ ("7" :> 7) @@ ("8" :> 8) @@ ("9" :> 9)

isdigit(s) ==
  s # <<>> /\ \A i \in 1..Len(s) : s[i] \in AsciiDigits \cup SuperscriptDigits

\* int(s) raises ValueError unless every character is a decimal digit
IntRaises(s) == s = <<>> \/ \E i \in 1..Len(s) : s[i] \notin AsciiDigits

RECURSIVE StripZeros(_)
StripZeros(s) ==
  IF Len(s) > 1 /\ Head(s) = "0" THEN StripZeros(Tail(s)) ELSE s

\* 2^63 - 1, the largest value SQLite binds as INTEGER
INT64_MAX == <<9, 2, 2, 3, 3, 7, 2, 0, 3, 6, 8, 5, 4, 7, 7, 5, 8, 0, 7>>

RECURSIVE DigitsGreater(_, _, _)
DigitsGreater(s, m, i) ==
  IF i > Len(s) THEN FALSE
  ELSE IF DigitVal[s[i]] > m[i] THEN TRUE
  ELSE IF DigitVal[s[i]] < m[i] THEN FALSE
  ELSE DigitsGreater(s, m, i + 1)

\* binding int(s) as a query parameter raises OverflowError
BindOverflows(s) ==
  LET d == StripZeros(s) IN
    \/ Len(d) > Len(INT64_MAX)
    \/ Len(d) = Len(INT64_MAX) /\ DigitsGreater(d, INT64_MAX, 1)

RECURSIVE IntValue(_)
IntValue(s) ==
  IF s = <<>> THEN 0
  ELSE 10 * IntValue(SubSeq(s, 1, Len(s) - 1)) + DigitVal[s[Len(s)]]

\* ----------------------------------------------------------------- store
BaseSchema ==
  {"categories", "threads", "posts", "comments",
   "idx_threads_last_activity", "idx_posts_thread_id", "idx_comments_post_id"}
CategoryColumn == "threads.category_id"
CategoryIndex == "idx_threads_category"

DefaultCategories ==
  << [slug |-> "technology", name |-> "Technology"],
     [slug |-> "learning", name |-> "Learning"],
     [slug |-> "politics", name |-> "Politics"],
     [slug |-> "secret", name |-> "Secret"] >>

Max(S) == CHOOSE x \in S : \A y \in S : y <= x
Min(S) == CHOOSE x \in S : \A y \in S : x <= y

EmptySeq == [categories |-> 0, threads |-> 0, posts |-> 0, comments |-> 0]

EmptyStore ==
  [schema |-> {}, categories |-> {}, threads |-> {}, posts |-> {},
   comments |-> {}, seq |-> EmptySeq]

\* SELECT id FROM categories ORDER BY id ASC LIMIT 1  (NULL when no row)
FirstCategoryId(store) ==
  IF store.categories = {} THEN NULL
  ELSE Min({c.id : c \in store.categories})

\* SELECT id FROM categories WHERE id = ?
CategoryById(store, n) ==
  IF \E c \in store.categories : c.id = n THEN n ELSE NULL

ThreadExists(store, tid) == \E t \in store.threads : t.id = tid
PostExists(store, pid) == \E p \in store.posts : p.id = pid
ThreadOfPost(store, pid) ==
  (CHOOSE p \in store.posts : p.id = pid).thread_id

\* INSERT INTO categories (slug, name) VALUES ... (AUTOINCREMENT ids)
RECURSIVE InsertCategories(_, _)
InsertCategories(store, rows) ==
  IF rows = <<>> THEN store
  ELSE LET id == store.seq.categories + 1
           row == [id |-> id, slug |-> Head(rows).slug, name |-> Head(rows).name]
       IN InsertCategories(
            [store EXCEPT !.categories = @ \cup {row}, !.seq.categories = id],
            Tail(rows))

\* slug TEXT UNIQUE: the insert raises IntegrityError on a duplicate slug
SlugConflict(store, rows) ==
  \E i \in 1..Len(rows) : \E c \in store.categories : c.slug = rows[i].slug

\* INSERT INTO threads (title, posts_count, created_at, last_activity_at,
\*                      category_id) VALUES (?, 0, ?, ?, ?)
InsertThread(store, title, ts, category_id) ==
  LET id == store.seq.threads + 1 IN
    [store EXCEPT
       !.threads = @ \cup {[id |-> id, title |-> title, posts_count |-> 0,
                            created_at |-> ts, last_activity_at |-> ts,
                            category_id |-> category_id]},
       !.seq.threads = id]

\* INSERT INTO posts (thread_id, author, content, created_at)
InsertPost(store, thread_id, author, content, ts) ==
  LET id == store.seq.posts + 1 IN
    [store EXCEPT
       !.posts = @ \cup {[id |-> id, thread_id |-> thread_id, author |-> author,
                          content |-> content, created_at |-> ts]},
       !.seq.posts = id]

\* INSERT INTO comments (post_id, author, content, created_at)
InsertComment(store, post_id, author, content, ts) ==
  LET id == store.seq.comments + 1 IN
    [store EXCEPT
       !.comments = @ \cup {[id |-> id, post_id |-> post_id, author |-> author,
                             content |-> content, created_at |-> ts]},
       !.seq.comments = id]

\* UPDATE threads SET last_activity_at=? WHERE id=?
BumpActivity(store, tid, ts) ==
  [store EXCEPT !.threads =
     {IF t.id = tid THEN [t EXCEPT !.last_activity_at = ts] ELSE t : t \in @}]

\* the counter is left alone when a post is inserted
BumpCountAndActivity_NoCount(store, tid, ts) == BumpActivity(store, tid, ts)

\* UPDATE threads SET posts_count = posts_count + 1, last_activity_at=? WHERE id=?
BumpCountAndActivity(store, tid, ts) ==
  [store EXCEPT !.threads =
     {IF t.id = tid
      THEN [t EXCEPT !.posts_count = @ + 1, !.last_activity_at = ts]
      ELSE t : t \in @}]

\* the backfill is skipped
BackfillCategory_Skip(store, default_cat_id) == store

\* UPDATE threads SET category_id = COALESCE(category_id, ?)
\*   WHERE category_id IS NULL
BackfillCategory(store, default_cat_id) ==
  [store EXCEPT !.threads =
     {IF t.category_id = NULL
      THEN [t EXCEPT !.category_id = default_cat_id]
      ELSE t : t \in @}]

\* executescript: CREATE TABLE / INDEX IF NOT EXISTS
CreateTables(store) == [store EXCEPT !.schema = @ \cup BaseSchema]

\* the column is added without looking at the schema
ColumnMissing_Always(store) == TRUE

\* "category_id" not in cols
ColumnMissing(store) == CategoryColumn \notin store.schema

\* the defaults are inserted while fewer than five categories exist
CategoriesEmpty_Few(store) == Cardinality(store.categories) <= 4

\* existing == 0
CategoriesEmpty(store) == Cardinality(store.categories) = 0


\* ------------------------------------------------------- initial stores
\* A store written by the release that had no categories yet.
LegacyStore ==
  [schema |-> BaseSchema \ {"categories"},
   categories |-> {},
   threads |-> {[id |-> 1, title |-> <<"a">>, posts_count |-> 1,
                 created_at |-> 0, last_activity_at |-> 0,
                 category_id |-> NULL]},
   posts |-> {[id |-> 1, thread_id |-> 1, author |-> ANON,
               content |-> <<"a">>, created_at |-> 0]},
   comments |-> {},
   seq |-> [categories |-> 0, threads |-> 1, posts |-> 1, comments |-> 0]]

\* A migrated store with an operator-chosen category set, one thread that
\* has a category and one that has none yet.
CustomStore ==
  [schema |-> BaseSchema \cup {CategoryColumn, CategoryIndex},
   categories |-> {[id |-> 2, slug |-> "general", name |-> "General"],
                   [id |-> 3, slug |-> "secret", name |-> "Secret"]},
   threads |-> {[id |-> 1, title |-> <<"a">>, posts_count |-> 1,
                 created_at |-> 0, last_activity_at |-> 1,
                 category_id |-> 3],
                [id |-> 2, title |-> <<"a">>, posts_count |-> 1,
                 created_at |-> 1, last_activity_at |-> 1,
                 category_id |-> NULL]},
   posts |-> {[id |-> 1, thread_id |-> 1, author |-> ANON,
               content |-> <<"a">>, created_at |-> 0],
              [id |-> 2, thread_id |-> 2, author |-> ANON,
               content |-> <<"a">>, created_at |-> 1]},
   comments |-> {[id |-> 1, post_id |-> 1, author |-> ANON,
                  content |-> <<"a">>, created_at |-> 1]},
   seq |-> [categories |-> 3, threads |-> 2, posts |-> 2, comments |-> 1]]

InitialStores == {EmptyStore, LegacyStore, CustomStore}

\* ------------------------------------------------------ CSRF and session
\* A token is a string, here a sequence: "" is <<>>, the hex tokens the
\* server generates are <<"t", i>>, and <<"f", 0>> is a value made up by a
\* client.
NoToken == <<>>
ServerTokens == {<<"t", i>> : i \in 1..NumSessions}
ForgedToken == <<"f", 0>>

\* request.form.get("csrf_token", "")
FormToken(f) == IF f.present THEN f.val ELSE NoToken

\* only a missing or empty token is rejected
CsrfRejects_EmptyOnly(token_form, token_sess) == token_form = NoToken

\* if not token_form or token_form != token_sess: abort(400)
CsrfRejects(token_form, token_sess) ==
  token_form = NoToken \/ token_form # token_sess

\* ---------------------------------------------------- request inputs
GoodText == Field(<<" ", "a">>)
TitleInputs == {Absent, Field(<<" ">>), GoodText}
ContentInputs == {Field(<<>>), GoodText}
AuthorInputs == {Absent, Field(<<" ">>), Field(<<"b", " ">>)}
Nines == [i \in 1..20 |-> "9"]
CatInputs ==
  {Absent, Field(<<>>), Field(<<"x">>), Field(<<"^2">>), Field(Nines),
   Field(<<"2">>), Field(<<"0", "3">>), Field(<<"7">>)}

\* fields one character longer than the bound of the longest field they
\* are clamped to; the title has whitespace where it is cut
LongTitle ==
  Field([i \in 1..(TITLE_MAX + 1) |->
           IF i \in {TITLE_MAX - 2, TITLE_MAX - 1} THEN " " ELSE "a"])
LongAuthor == Field([i \in 1..(AUTHOR_MAX + 1) |-> "b"])
LongContent == Field([i \in 1..(POST_MAX + 1) |-> "c"])

CreateForms ==
  [title : TitleInputs, content : ContentInputs, author : AuthorInputs,
   category_id : {Absent}]
  \cup
  [title : {GoodText}, content : {GoodText}, author : {Absent},
   category_id : CatInputs]
  \cup
  [title : {LongTitle}, content : {LongContent}, author : {LongAuthor},
   category_id : {Absent}]

\* the forms used where requests run concurrently
FewCreateForms ==
  [title : {Absent, GoodText}, content : {GoodText}, author : {Absent},
   category_id : {Absent, Field(<<"2">>)}]
FewReplyForms ==
  [title : {Absent}, content : {GoodText}, author : {Absent},
   category_id : {Absent}]

ReplyForms ==
  [title : {Absent}, content : ContentInputs, author : AuthorInputs,
   category_id : {Absent}]
  \cup
  [title : {Absent}, content : {LongContent}, author : {LongAuthor},
   category_id : {Absent}]

NoForm ==
  [title |-> Absent, content |-> Absent, author |-> Absent,
   category_id |-> Absent]

ThreadIds == 1..(MaxThreads + 1)
PostIds == 1..(MaxPosts + 1)

\* ------------------------------------------------------------ variables
VARIABLES
  db,         \* committed store
  wtx,        \* working copy of the connection holding the write lock
  lock,       \* request holding the write lock, 0 when no request holds it
  pcInit,     \* position of init_db
  ready,      \* create_app has completed init_db at least once
  initError,  \* the last init_db call raised an SQL error
  req,        \* per request slot: position and locals of the handler
  session,    \* per session: its csrf_token ("" when absent)
  last,       \* inputs and outcome of the most recent request
  origin,     \* the store the first process found
  secEnv,     \* os.environ["SECRET_KEY"] ("" when unset)
  secFile,    \* the file secret_key next to the database
  secGen,     \* number of secrets secrets.token_hex(32) has produced
  secOut,     \* the most recent _get_persistent_secret call: what it
              \* found and what it returned
  secSaved,   \* the secret the most recent successful write_text stored
  calc        \* input and result of the most recent helper evaluation

secVars == <<secEnv, secFile, secGen, secOut, secSaved>>

vars ==
  <<db, wtx, lock, pcInit, ready, initError, req, session, last, origin,
    secVars, calc>>

IdleReq ==
  [pc |-> "idle", kind |-> "none", tid |-> 0, pid |-> 0, ts |-> 0,
   category_id |-> 0, title |-> <<>>, author |-> <<>>, content |-> <<>>]

NoRequest ==
  [kind |-> "none", token |-> Absent, s |-> 0, had_token |-> FALSE,
   target |-> 0, form |-> NoForm, status |-> 0]

\* the secret store and the helpers before their first call
NoFile == [exists |-> FALSE, readable |-> FALSE, content |-> <<>>]
NoFs == [stat |-> "ok", mkdir |-> "ok", write |-> "ok", chmod |-> "ok"]
NoSecret == <<>>
NoResult ==
  [called |-> FALSE, raised |-> FALSE, ret |-> <<>>, fs |-> NoFs,
   file |-> NoFile, saved |-> NoSecret]
NoCalc == [op |-> "none"]
SecretIdle ==
  /\ secEnv = <<>>
  /\ secFile = NoFile
  /\ secGen = 0
  /\ secOut = NoResult
  /\ secSaved = NoSecret

Init ==
  /\ db \in InitialStores
  /\ wtx = db
  /\ lock = 0
  /\ pcInit = "idle"
  /\ ready = FALSE
  /\ initError = FALSE
  /\ req = [r \in Reqs |-> IdleReq]
  /\ session = [s \in Sessions |-> NoToken]
  /\ last = NoRequest
  /\ origin = db
  /\ SecretIdle
  /\ calc = NoCalc

\* ------------------------------------------------------------- init_db
\* init_db is called from create_app (line 463), before the process serves
\* its first request; the deployment is a single process, so a call never
\* overlaps a request of the same store.
InitHoldsLock == pcInit \in {"seed_commit", "backfill_commit"}
LockFree == lock = 0 /\ ~InitHoldsLock

reqVars == <<req, session, last>>
histVars == <<origin, secVars, calc>>

\* lines 102-141: get_db(); executescript(CREATE ... IF NOT EXISTS)
InitCreateTables ==
  /\ pcInit = "idle"
  /\ \A r \in Reqs : req[r].pc = "idle"
  /\ CreateTables(db) # db => LockFree
  /\ db' = CreateTables(db)
  /\ wtx' = db'
  /\ pcInit' = "migrate"
  /\ initError' = FALSE
  /\ UNCHANGED <<lock, ready, reqVars, histVars>>

\* lines 143-146: PRAGMA table_info; ALTER TABLE threads ADD COLUMN
InitMigrate ==
  /\ pcInit = "migrate"
  /\ IF ColumnMissing(db)
     THEN /\ LockFree
          /\ IF CategoryColumn \in db.schema
             THEN \* duplicate column name: OperationalError
                  /\ initError' = TRUE
                  /\ pcInit' = "idle"
                  /\ UNCHANGED <<db, wtx>>
             ELSE /\ db' = [db EXCEPT !.schema = @ \cup {CategoryColumn}]
                  /\ wtx' = db'
                  /\ pcInit' = "index"
                  /\ UNCHANGED initError
     ELSE /\ pcInit' = "seed"
          /\ UNCHANGED <<db, wtx, initError>>
  /\ UNCHANGED <<lock, ready, reqVars, histVars>>

\* lines 147-150: CREATE INDEX IF NOT EXISTS idx_threads_category; commit
InitIndex ==
  /\ pcInit = "index"
  /\ LockFree
  /\ db' = [db EXCEPT !.schema = @ \cup {CategoryIndex}]
  /\ wtx' = db'
  /\ pcInit' = "seed"
  /\ UNCHANGED <<lock, ready, initError, reqVars, histVars>>

\* lines 153-163: SELECT COUNT(*); executemany(INSERT INTO categories)
InitSeed ==
  /\ pcInit = "seed"
  /\ IF CategoriesEmpty(db)
     THEN /\ LockFree
          /\ IF SlugConflict(db, DefaultCategories)
             THEN \* UNIQUE constraint failed: IntegrityError
                  /\ initError' = TRUE
                  /\ pcInit' = "idle"
                  /\ UNCHANGED wtx
             ELSE /\ wtx' = InsertCategories(db, DefaultCategories)
                  /\ pcInit' = "seed_commit"
                  /\ UNCHANGED initError
     ELSE /\ pcInit' = "backfill"
          /\ UNCHANGED <<wtx, initError>>
  /\ UNCHANGED <<db, lock, ready, reqVars, histVars>>

\* line 164: db.commit()
InitSeedCommit ==
  /\ pcInit = "seed_commit"
  /\ db' = wtx
  /\ pcInit' = "backfill"
  /\ UNCHANGED <<wtx, lock, ready, initError, reqVars, histVars>>

\* lines 167-173: SELECT lowest category id; UPDATE threads ... IS NULL
InitBackfill ==
  /\ pcInit = "backfill"
  /\ IF FirstCategoryId(db) # NULL
     THEN /\ LockFree
          /\ wtx' = BackfillCategory(db, FirstCategoryId(db))
          /\ pcInit' = "backfill_commit"
          /\ UNCHANGED ready
     ELSE /\ pcInit' = "idle"
          /\ ready' = TRUE
          /\ UNCHANGED wtx
  /\ UNCHANGED <<db, lock, initError, reqVars, histVars>>

\* line 174: db.commit(); init_db returns
InitBackfillCommit ==
  /\ pcInit = "backfill_commit"
  /\ db' = wtx
  /\ pcInit' = "idle"
  /\ ready' = TRUE
  /\ UNCHANGED <<wtx, lock, initError, reqVars, histVars>>

\* The process dies, or a statement times out on the write lock
\* ("database is locked"), part-way through init_db: the open transaction,
\* if any, is rolled back when the connection goes away.
InitCrash ==
  /\ pcInit # "idle"
  /\ pcInit' = "idle"
  /\ wtx' = db
  /\ UNCHANGED <<db, lock, ready, initError, reqVars, histVars>>

\* --------------------------------------------------------------- clock
\* lines 203-204: int(time.time()).  The wall clock is outside the program
\* and can be stepped in either direction between two reads, so a read
\* returns any value.
now_ts == Times

\* ------------------------------------------------------------ requests
storeVars == <<db, wtx, lock>>
initVars == <<pcInit, ready, initError>>

Issued == {session[s] : s \in Sessions} \ {NoToken}

\* every session is given the same token
FreshTokens_Constant(s) ==
  IF session[s] = NoToken THEN {<<"t", 1>>} ELSE {session[s]}

\* every request is given a new token, also when the session has one
FreshTokens_Rotate(s) ==
  IF \E i \in 1..NumSessions : <<"t", i>> \notin Issued
  THEN {<<"t", Min({i \in 1..NumSessions : <<"t", i>> \notin Issued})>>}
  ELSE {session[s]}

\* secrets.token_hex(16): a fresh 128-bit value, never one issued before
\* (the tokens are interchangeable: the unused one of lowest index is taken)
FreshTokens(s) ==
  IF session[s] = NoToken
  THEN {<<"t", Min({i \in 1..NumSessions : <<"t", i>> \notin Issued})>>}
  ELSE {session[s]}

\* what a client can put in the csrf_token field: nothing, an empty or a
\* made-up value, or a token some session has been issued
TokenInputs ==
  {Absent, Field(NoToken), Field(ForgedToken)} \cup {Field(t) : t \in Issued}

\* a client that sends no token or the one of its own session
FewTokens(s) == {Absent, Field(session[s])}

\* lines 365-378: the category of a new thread
ResolveCategory(store, cat_id_raw) ==
  IF cat_id_raw.present /\ cat_id_raw.val # <<>> /\ isdigit(cat_id_raw.val)
  THEN IF IntRaises(cat_id_raw.val)
       THEN [error |-> "ValueError", id |-> NULL]
       ELSE IF BindOverflows(cat_id_raw.val)
       THEN [error |-> "OverflowError", id |-> NULL]
       ELSE IF CategoryById(store, IntValue(cat_id_raw.val)) # NULL
       THEN [error |-> "none", id |-> IntValue(cat_id_raw.val)]
       ELSE IF FirstCategoryId(store) # NULL
       THEN [error |-> "none", id |-> FirstCategoryId(store)]
       ELSE [error |-> "abort400", id |-> NULL]
  ELSE IF FirstCategoryId(store) # NULL
       THEN [error |-> "none", id |-> FirstCategoryId(store)]
       ELSE [error |-> "abort400", id |-> NULL]

\* (request.form.get("author") or "").strip() or "anon"
AuthorOf(f) == IF strip(OrEmpty(f)) = <<>> THEN ANON ELSE strip(OrEmpty(f))

\* only the title is required
CreateThreadStart_TitleOnly(store, f, ts) ==
  LET title == strip(OrEmpty(f.title))
      content == strip(OrEmpty(f.content))
      cat == ResolveCategory(store, f.category_id)
  IN IF title = <<>>
     THEN [status |-> 400, slot |-> IdleReq]
     ELSE IF cat.error = "abort400"
     THEN [status |-> 400, slot |-> IdleReq]
     ELSE IF cat.error # "none"
     THEN [status |-> 500, slot |-> IdleReq]
     ELSE [status |-> 0,
           slot |-> [pc |-> "insert_thread", kind |-> "create_thread",
                     tid |-> 0, pid |-> 0, ts |-> ts,
                     category_id |-> cat.id,
                     title |-> clamp_text(title, TITLE_MAX),
                     author |-> clamp_text(AuthorOf(f.author), AUTHOR_MAX),
                     content |-> clamp_text(content, POST_MAX)]]

\* lines 351-380: create_thread up to now_ts(); status 0 = goes on to write
CreateThreadStart(store, f, ts) ==
  LET title == strip(OrEmpty(f.title))
      content == strip(OrEmpty(f.content))
      cat == ResolveCategory(store, f.category_id)
  IN IF title = <<>> \/ content = <<>>
     THEN [status |-> 400, slot |-> IdleReq]
     ELSE IF cat.error = "abort400"
     THEN [status |-> 400, slot |-> IdleReq]
     ELSE IF cat.error # "none"
     THEN [status |-> 500, slot |-> IdleReq]
     ELSE [status |-> 0,
           slot |-> [pc |-> "insert_thread", kind |-> "create_thread",
                     tid |-> 0, pid |-> 0, ts |-> ts,
                     category_id |-> cat.id,
                     title |-> clamp_text(title, TITLE_MAX),
                     author |-> clamp_text(AuthorOf(f.author), AUTHOR_MAX),
                     content |-> clamp_text(content, POST_MAX)]]

\* the reply is written without looking the thread up
ReplyStart_NoLookup(store, thread_id, f, ts) ==
  [status |-> 0,
   slot |-> [pc |-> "insert_post", kind |-> "reply", tid |-> thread_id,
             pid |-> 0, ts |-> ts, category_id |-> 0, title |-> <<>>,
             author |-> clamp_text(AuthorOf(f.author), AUTHOR_MAX),
             content |-> clamp_text(strip(OrEmpty(f.content)), POST_MAX)]]

\* lines 398-413: reply up to now_ts()
ReplyStart(store, thread_id, f, ts) ==
  LET content == strip(OrEmpty(f.content))
  IN IF ~ThreadExists(store, thread_id)
     THEN [status |-> 404, slot |-> IdleReq]
     ELSE IF content = <<>>
     THEN [status |-> 400, slot |-> IdleReq]
     ELSE [status |-> 0,
           slot |-> [pc |-> "insert_post", kind |-> "reply",
                     tid |-> thread_id, pid |-> 0, ts |-> ts,
                     category_id |-> 0, title |-> <<>>,
                     author |-> clamp_text(AuthorOf(f.author), AUTHOR_MAX),
                     content |-> clamp_text(content, POST_MAX)]]

\* a comment is clamped to the bound of a post
CommentStart_PostBound(store, post_id, f, ts) ==
  LET content == strip(OrEmpty(f.content))
  IN IF ~PostExists(store, post_id)
     THEN [status |-> 404, slot |-> IdleReq]
     ELSE IF content = <<>>
     THEN [status |-> 400, slot |-> IdleReq]
     ELSE [status |-> 0,
           slot |-> [pc |-> "insert_comment", kind |-> "comment",
                     tid |-> ThreadOfPost(store, post_id), pid |-> post_id,
                     ts |-> ts, category_id |-> 0, title |-> <<>>,
                     author |-> clamp_text(AuthorOf(f.author), AUTHOR_MAX),
                     content |-> clamp_text(content, POST_MAX)]]

\* lines 426-444: comment up to now_ts()
CommentStart(store, post_id, f, ts) ==
  LET content == strip(OrEmpty(f.content))
  IN IF ~PostExists(store, post_id)
     THEN [status |-> 404, slot |-> IdleReq]
     ELSE IF content = <<>>
     THEN [status |-> 400, slot |-> IdleReq]
     ELSE [status |-> 0,
           slot |-> [pc |-> "insert_comment", kind |-> "comment",
                     tid |-> ThreadOfPost(store, post_id), pid |-> post_id,
                     ts |-> ts, category_id |-> 0, title |-> <<>>,
                     author |-> clamp_text(AuthorOf(f.author), AUTHOR_MAX),
                     content |-> clamp_text(content, COMMENT_MAX)]]

\* rows the requests in flight are about to insert
InFlight(kinds) == Cardinality({r \in Reqs : req[r].kind \in kinds})
RoomForThread ==
  db.seq.threads + InFlight({"create_thread"}) < MaxThreads
RoomForPost ==
  db.seq.posts + InFlight({"create_thread", "reply"}) < MaxPosts
RoomForComment ==
  db.seq.comments + InFlight({"comment"}) < MaxComments

\* the worker that takes the next request
FreeSlot ==
  IF \E r \in Reqs : req[r].pc = "idle"
  THEN Min({r \in Reqs : req[r].pc = "idle"}) ELSE 0

\* lines 177-188, then the route handler.  `handled` is the handler's
\* outcome, used only when the CSRF check lets the request through.
Serve(r, s, kind, method, tokf, target, f, handled, room, fresh, log) ==
  LET token_sess == fresh
      token_form == FormToken(tokf)
      rejected == method = "POST" /\ CsrfRejects(token_form, token_sess)
      out == IF rejected THEN [status |-> 400, slot |-> IdleReq] ELSE handled
  IN /\ out.status = 0 => room
     /\ session' = [session EXCEPT ![s] = token_sess]
     /\ req' = [req EXCEPT ![r] = out.slot]
     /\ IF log
        THEN /\ last' = [kind |-> kind, token |-> tokf, s |-> s,
                         had_token |-> session[s] # NoToken,
                         target |-> target, form |-> f,
                         status |-> out.status]
        ELSE UNCHANGED last
     /\ UNCHANGED <<storeVars, initVars, histVars>>

\* the process is up and worker r is free to take a request
Ready(r) == ready /\ pcInit = "idle" /\ r = FreeSlot

\* GET / and GET /thread/<id>: only the session bootstrap changes state
GetPage(r, s) ==
  /\ Ready(r)
  /\ \E fresh \in FreshTokens(s) :
       Serve(r, s, "GET", "GET", Absent, 0, NoForm,
             [status |-> 200, slot |-> IdleReq], TRUE, fresh, FALSE)

\* POST /thread
CreateThreadReq(r, s, tokens, forms, log) ==
  /\ Ready(r)
  /\ \E tokf \in tokens, f \in forms, fresh \in FreshTokens(s), ts \in now_ts :
       Serve(r, s, "create_thread", "POST", tokf, 0, f,
             CreateThreadStart(db, f, ts), RoomForThread /\ RoomForPost,
             fresh, log)

\* POST /thread/<thread_id>/reply
ReplyReq(r, s, tokens, forms, log) ==
  /\ Ready(r)
  /\ \E tokf \in tokens, thread_id \in ThreadIds, f \in forms,
        fresh \in FreshTokens(s), ts \in now_ts :
       Serve(r, s, "reply", "POST", tokf, thread_id, f,
             ReplyStart(db, thread_id, f, ts), RoomForPost, fresh, log)

\* POST /post/<post_id>/comment
CommentReq(r, s, tokens, forms, log) ==
  /\ Ready(r)
  /\ \E tokf \in tokens, post_id \in PostIds, f \in forms,
        fresh \in FreshTokens(s), ts \in now_ts :
       Serve(r, s, "comment", "POST", tokf, post_id, f,
             CommentStart(db, post_id, f, ts), RoomForComment, fresh, log)

\* The write statements below run on the request's own connection.  The
\* first one opens the transaction and takes the write lock.
Base(r) == IF lock = r THEN wtx ELSE db
MayWrite(r) == lock = r \/ LockFree

\* the connection commits every statement on its own
TxInsertThread_Autocommit(r) ==
  /\ req[r].pc = "insert_thread"
  /\ MayWrite(r)
  /\ wtx' = InsertThread(Base(r), req[r].title, req[r].ts, req[r].category_id)
  /\ db' = wtx'
  /\ lock' = r
  /\ req' = [req EXCEPT ![r].pc = "insert_post", ![r].tid = wtx'.seq.threads]
  /\ UNCHANGED <<initVars, session, last, histVars>>

\* lines 381-385: INSERT INTO threads; thread_id = cur.lastrowid
TxInsertThread(r) ==
  /\ req[r].pc = "insert_thread"
  /\ MayWrite(r)
  /\ wtx' = InsertThread(Base(r), req[r].title, req[r].ts, req[r].category_id)
  /\ lock' = r
  /\ req' = [req EXCEPT ![r].pc = "insert_post", ![r].tid = wtx'.seq.threads]
  /\ UNCHANGED <<db, initVars, session, last, histVars>>

\* lines 386-389 and 414-417: INSERT INTO posts
TxInsertPost(r) ==
  /\ req[r].pc = "insert_post"
  /\ MayWrite(r)
  /\ wtx' = InsertPost(Base(r), req[r].tid, req[r].author, req[r].content,
                       req[r].ts)
  /\ lock' = r
  /\ req' = [req EXCEPT ![r].pc = "update"]
  /\ UNCHANGED <<db, initVars, session, last, histVars>>

\* lines 445-448: INSERT INTO comments
TxInsertComment(r) ==
  /\ req[r].pc = "insert_comment"
  /\ MayWrite(r)
  /\ wtx' = InsertComment(Base(r), req[r].pid, req[r].author, req[r].content,
                          req[r].ts)
  /\ lock' = r
  /\ req' = [req EXCEPT ![r].pc = "update"]
  /\ UNCHANGED <<db, initVars, session, last, histVars>>

\* lines 390-393, 418-421 and 450-453: UPDATE threads
UpdateThread(store, kind, tid, ts) ==
  IF kind = "comment" THEN BumpActivity(store, tid, ts)
  ELSE BumpCountAndActivity(store, tid, ts)

TxUpdate(r) ==
  /\ req[r].pc = "update"
  /\ lock = r
  /\ wtx' = UpdateThread(wtx, req[r].kind, req[r].tid, req[r].ts)
  /\ req' = [req EXCEPT ![r].pc = "commit"]
  /\ UNCHANGED <<db, lock, initVars, session, last, histVars>>

\* lines 394, 422 and 454: db.commit(); the redirect is returned
TxCommit(r) ==
  /\ req[r].pc = "commit"
  /\ lock = r
  /\ db' = wtx
  /\ lock' = 0
  /\ req' = [req EXCEPT ![r] = IdleReq]
  /\ UNCHANGED <<wtx, initVars, session, last, histVars>>

\* lines 94-99: the request ends without commit (a statement timed out on
\* the write lock, the worker died): close_db closes the connection and
\* SQLite rolls the open transaction back.
ReqFail(r) ==
  /\ req[r].pc # "idle"
  /\ req' = [req EXCEPT ![r] = IdleReq]
  /\ IF lock = r THEN lock' = 0 /\ wtx' = db ELSE UNCHANGED <<lock, wtx>>
  /\ UNCHANGED <<db, initVars, session, last, histVars>>

\* the browser whose requests run concurrently
Clients == {1}

\* Requests served concurrently by NumReqs workers.
Next ==
  \/ InitCreateTables
  \/ InitMigrate
  \/ InitIndex
  \/ InitSeed
  \/ InitSeedCommit
  \/ InitBackfill
  \/ InitBackfillCommit
  \/ InitCrash
  \/ \E r \in Reqs, s \in Clients : GetPage(r, s)
  \/ \E r \in Reqs, s \in Clients :
       CreateThreadReq(r, s, FewTokens(s), FewCreateForms, FALSE)
  \/ \E r \in Reqs, s \in Clients :
       ReplyReq(r, s, FewTokens(s), FewReplyForms, FALSE)
  \/ \E r \in Reqs, s \in Clients :
       CommentReq(r, s, FewTokens(s), FewReplyForms, FALSE)
  \/ \E r \in Reqs : TxInsertThread(r)
  \/ \E r \in Reqs : TxInsertPost(r)
  \/ \E r \in Reqs : TxInsertComment(r)
  \/ \E r \in Reqs : TxUpdate(r)
  \/ \E r \in Reqs : TxCommit(r)
  \/ \E r \in Reqs : ReqFail(r)

Spec == Init /\ [][Next]_vars

\* One POST of any shape, recorded in `last`, sent to a store that init_db
\* has prepared and to sessions that any number of GETs have touched.
Probed == last # NoRequest

NextProbe ==
  \/ ~Probed /\ InitCreateTables
  \/ ~Probed /\ InitMigrate
  \/ ~Probed /\ InitIndex
  \/ ~Probed /\ InitSeed
  \/ ~Probed /\ InitSeedCommit
  \/ ~Probed /\ InitBackfill
  \/ ~Probed /\ InitBackfillCommit
  \/ ~Probed /\ InitCrash
  \/ ~Probed /\ \E r \in Reqs, s \in Sessions : GetPage(r, s)
  \/ ~Probed /\ \E r \in Reqs, s \in Sessions :
       CreateThreadReq(r, s, TokenInputs, CreateForms, TRUE)
  \/ ~Probed /\ \E r \in Reqs, s \in Sessions :
       ReplyReq(r, s, TokenInputs, ReplyForms, TRUE)
  \/ ~Probed /\ \E r \in Reqs, s \in Sessions :
       CommentReq(r, s, TokenInputs, ReplyForms, TRUE)
  \/ \E r \in Reqs : TxInsertThread(r)
  \/ \E r \in Reqs : TxInsertPost(r)
  \/ \E r \in Reqs : TxInsertComment(r)
  \/ \E r \in Reqs : TxUpdate(r)
  \/ \E r \in Reqs : TxCommit(r)
  \/ \E r \in Reqs : ReqFail(r)

SpecProbe == Init /\ [][NextProbe]_vars

TypeOK ==
  /\ lock \in 0..NumReqs
  /\ ready \in BOOLEAN
  /\ lock # 0 => ~InitHoldsLock
  /\ (lock = 0 /\ ~InitHoldsLock) => wtx = db


\* ---------------------------------------------------------- secret store
\* secrets.token_hex(32): the n-th secret produced, a string without
\* whitespace that differs from every earlier one
Hex(n) == [i \in 1..n |-> "h"]

\* what the operator may have put in SECRET_KEY and in the secret_key file
SecretEnvs == {<<>>, <<" ">>, <<"e">>, <<"e", " ">>}
SecretFiles ==
  {NoFile} \cup
  [exists : {TRUE}, readable : BOOLEAN,
   content : {<<>>, <<"\n">>, <<"f">>, <<"f", "\n">>}]

\* how the filesystem answers the calls of one resolve: Path.exists (stat),
\* Path.mkdir, Path.write_text (refused at open, or the file is created and
\* truncated and the data is then refused) and os.chmod
FsOutcomes ==
  [stat : {"ok", "error"}, mkdir : {"ok", "error"},
   write : {"ok", "denied", "nospace"}, chmod : {"ok", "error"}]

\* lines 47-53: mkdir, write_text, chmod 0o600.  A file the call creates
\* is readable by the process; chmod makes an existing one so.
PersistSecret(file, new_sk, fs) ==
  IF fs.mkdir = "error" \/ fs.write = "denied" THEN file
  ELSE IF fs.write = "nospace"
  THEN [exists |-> TRUE, readable |-> ~file.exists \/ file.readable,
        content |-> <<>>]
  ELSE [exists |-> TRUE,
        readable |-> ~file.exists \/ file.readable \/ fs.chmod = "ok",
        content |-> new_sk]

\* the stored secret is never read back
ReadsFile_Never(file, fs) == FALSE

\* lines 39-43: secret_file.exists() and read_text() does not raise
ReadsFile(file, fs) == file.exists /\ file.readable

\* lines 22-59.  `gen` counts the secrets generated so far.
get_persistent_secret(env, file, gen, fs) ==
  LET sk == strip(env)
      new_sk == Hex(gen + 1)
  IN IF sk # <<>>
     THEN [ret |-> sk, raised |-> FALSE, file |-> file, gen |-> gen,
           saved |-> FALSE]
     ELSE IF fs.stat = "error"
     THEN \* line 58-59: the outer handler
          [ret |-> new_sk, raised |-> FALSE, file |-> file, gen |-> gen + 1,
           saved |-> FALSE]
     ELSE IF ReadsFile(file, fs)
     THEN [ret |-> strip(file.content), raised |-> FALSE, file |-> file,
           gen |-> gen, saved |-> FALSE]
     ELSE [ret |-> new_sk, raised |-> FALSE,
           file |-> PersistSecret(file, new_sk, fs), gen |-> gen + 1,
           saved |-> fs.mkdir = "ok" /\ fs.write = "ok"]

forumVars ==
  <<db, wtx, lock, pcInit, ready, initError, req, session, last, origin>>

ForumAtRest ==
  /\ db = EmptyStore
  /\ wtx = db
  /\ lock = 0
  /\ pcInit = "idle"
  /\ ready = FALSE
  /\ initError = FALSE
  /\ req = [r \in Reqs |-> IdleReq]
  /\ session = [s \in Sessions |-> NoToken]
  /\ last = NoRequest
  /\ origin = db

\* line 72: create_app resolves the secret once per process start
Resolve ==
  \E fs \in FsOutcomes :
    LET o == get_persistent_secret(secEnv, secFile, secGen, fs)
    IN /\ o.gen <= MaxSecrets
       /\ secFile' = o.file
       /\ secGen' = o.gen
       /\ secOut' = [called |-> TRUE, raised |-> o.raised, ret |-> o.ret,
                     fs |-> fs, file |-> secFile, saved |-> secSaved]
       /\ secSaved' = IF o.saved THEN o.ret ELSE secSaved
       /\ UNCHANGED <<secEnv, forumVars, calc>>

\* Process starts, one after the other, against one environment and one
\* data directory.
InitSecret ==
  /\ ForumAtRest
  /\ secEnv \in SecretEnvs
  /\ secFile \in SecretFiles
  /\ secGen = 0
  /\ secOut = NoResult
  /\ secSaved = NoSecret
  /\ calc = NoCalc

NextSecret == Resolve

SpecSecret == InitSecret /\ [][NextSecret]_vars

\* ------------------------------------------------------------ clamp_text
\* the texts handed to clamp_text: plain characters, whitespace, and the
\* ellipsis itself
ClampChars == {"a", " ", ELLIPSIS}
ClampTexts == UNION {[1..n -> ClampChars] : n \in 0..MaxText}

RestAtRest == ForumAtRest /\ SecretIdle

\* lines 206-207, called with any text and any max_len >= 1
ClampCall ==
  /\ \E s \in ClampTexts, max_len \in 1..MaxClamp :
       calc' = [op |-> "clamp", s |-> s, max_len |-> max_len,
                out |-> clamp_text(s, max_len)]
  /\ UNCHANGED <<forumVars, secVars>>

InitCalc == RestAtRest /\ calc = NoCalc

SpecClamp == InitCalc /\ [][ClampCall]_vars

\* ------------------------------------------------------------ pagination
THREADS_PER_PAGE == 20
POSTS_PER_PAGE == 50

DigitChar == <<"0", "1", "2", "3", "4", "5", "6", "7", "8", "9">>

\* Python integers are unbounded: a non-negative one is the sequence of its
\* decimal digits, without leading zeros.
RECURSIVE TimesSmall(_, _, _)
TimesSmall(s, k, carry) ==
  IF s = <<>>
  THEN IF carry = 0 THEN <<>> ELSE TimesSmall(<<>>, k, carry \div 10)
                                     \o <<DigitChar[(carry % 10) + 1]>>
  ELSE LET v == DigitVal[s[Len(s)]] * k + carry
       IN TimesSmall(SubSeq(s, 1, Len(s) - 1), k, v \div 10)
            \o <<DigitChar[(v % 10) + 1]>>

Multiply(s, k) ==
  IF TimesSmall(s, k, 0) = <<>> THEN <<"0">>
  ELSE StripZeros(TimesSmall(s, k, 0))

\* s - 1 for s >= 1
RECURSIVE MinusOne(_)
MinusOne(s) ==
  IF s[Len(s)] = "0"
  THEN MinusOne(SubSeq(s, 1, Len(s) - 1)) \o <<"9">>
  ELSE SubSeq(s, 1, Len(s) - 1) \o <<DigitChar[DigitVal[s[Len(s)]]]>>

\* int(text) for text made of blanks, signs, ASCII digits and other
\* characters: surrounding whitespace is ignored, one sign is allowed, and
\* anything but a non-empty run of digits after it raises ValueError
ParseInt(text) ==
  LET t == strip(text)
      signed == t # <<>> /\ Head(t) \in {"+", "-"}
      digits == IF signed THEN Tail(t) ELSE t
  IN IF IntRaises(digits)
     THEN [error |-> TRUE, neg |-> FALSE, digits |-> <<"0">>]
     ELSE [error |-> FALSE, neg |-> signed /\ Head(t) = "-",
           digits |-> StripZeros(digits)]

\* lines 227-230 and 305-308: max(int(request.args.get("page", "1")), 1),
\* and 1 on ValueError
PageOf(raw) ==
  LET parsed == ParseInt(IF raw.present THEN raw.val ELSE <<"1">>)
  IN IF parsed.error \/ parsed.neg \/ parsed.digits = <<"0">>
     THEN <<"1">> ELSE parsed.digits

\* lines 232-265 and 310-340 for a result of `total` rows, numbered 1..total
\* in the order of the query: LIMIT per_page OFFSET offset, then the count
\* of pages.  Binding an offset above 2^63 - 1 raises OverflowError.
Paginate(raw, per_page, total) ==
  LET page == PageOf(raw)
      offset == Multiply(MinusOne(page), per_page)
      first == IF Len(offset) > 9 THEN total ELSE Min({IntValue(offset), total})
      count == Min({per_page, total - first})
  IN IF BindOverflows(offset)
     THEN [status |-> 500, page |-> page, total_pages |-> 0, items |-> <<>>]
     ELSE [status |-> 200, page |-> page,
           total_pages |-> Max({(total + per_page - 1) \div per_page, 1}),
           items |-> [i \in 1..count |-> first + i]]

\* what a client can put in ?page=
PageInputs ==
  {Absent, Field(<<>>), Field(<<"x">>), Field(<<"2", ".", "0">>),
   Field(<<"0">>), Field(<<"-", "3">>), Field(<<"1">>), Field(<<"2">>),
   Field(<<" ", "2">>), Field(<<"+", "3">>), Field(<<"0", "3">>),
   Field(<<"4">>), Field(<<"9", "9">>),
   Field(<<"4", "6", "1", "1", "6", "8", "6", "0", "1", "8", "4", "2", "7",
           "3", "8", "7", "9", "1">>),
   Field(Nines)}

NoPage == [status |-> 0, page |-> <<>>, total_pages |-> 0, items |-> <<>>]

\* a GET / or GET /thread/<id> with a page parameter, about to be served
\* from a result of `total` rows
InitPage ==
  /\ RestAtRest
  /\ calc \in [op : {"page"}, raw : PageInputs,
               per_page : {THREADS_PER_PAGE, POSTS_PER_PAGE},
               total : 0..MaxRows, res : {NoPage}]

\* the handler runs
PageCall ==
  /\ calc.op = "page"
  /\ calc.res = NoPage
  /\ calc' = [calc EXCEPT
                !.res = Paginate(calc.raw, calc.per_page, calc.total)]
  /\ UNCHANGED <<forumVars, secVars>>

SpecPage == InitPage /\ [][PageCall]_vars

\* ================================================================ claims
PostsOf(store, tid) == {p \in store.posts : p.thread_id = tid}
CommentsOf(store, tid) ==
  {c \in store.comments : \E p \in PostsOf(store, tid) : c.post_id = p.id}

\* C1: in every committed state each thread's posts_count equals the number
\* of post rows that carry its id.
C1_PostsCount ==
  \A t \in db.threads : t.posts_count = Cardinality(PostsOf(db, t.id))

\* a reply has been committed while another request is inside its own
\* write transaction
C1_Witness ==
  /\ ready
  /\ \E t \in db.threads : t.posts_count >= 2
  /\ \E r \in Reqs : req[r].pc = "commit"

\* C2: in every committed state each thread's last_activity_at is the
\* largest created_at among its posts and the comments on its posts.
C2_LastActivityIsMax ==
  \A t \in db.threads :
    PostsOf(db, t.id) # {} =>
      t.last_activity_at =
        Max({p.created_at : p \in PostsOf(db, t.id)} \cup
            {c.created_at : c \in CommentsOf(db, t.id)})

\* C8: once one init_db call has completed, no step of a later call changes
\* the committed store (schema, categories, threads, every row) or raises.
C8_SecondRunChangesNothing ==
  [][(ready /\ pcInit' # pcInit) => (db' = db /\ ~initError')]_vars

\* a second call is about to return on a store that started as the legacy one
C8_Witness ==
  ready /\ pcInit = "backfill_commit" /\ origin = LegacyStore

DefaultSlugs == {DefaultCategories[i].slug : i \in 1..Len(DefaultCategories)}

\* C9: the seeding step inserts the four defaults exactly when it finds the
\* categories table empty and nothing otherwise; categories change at no other
\* step; a store that started empty has exactly the four default categories,
\* with distinct slugs, after every completed call.
C9_SeedStep ==
  (pcInit = "seed" /\ pcInit' # "seed") =>
    /\ ~initError'
    /\ IF db.categories = {}
       THEN pcInit' = "seed_commit" =>
              /\ Cardinality(wtx'.categories) = 4
              /\ {c.slug : c \in wtx'.categories} = DefaultSlugs
       ELSE pcInit' # "seed_commit" /\ wtx' = wtx

C9_OnlySeedCommit ==
  db'.categories # db.categories =>
    db.categories = {} /\ pcInit = "seed_commit"

C9_FourAfterEmpty ==
  (origin = EmptyStore /\ ready) =>
    /\ Cardinality(db.categories) = 4
    /\ {c.slug : c \in db.categories} = DefaultSlugs
    /\ \A c1, c2 \in db.categories : c1.slug = c2.slug => c1 = c2

C9_SeedOnlyWhenEmpty ==
  /\ [][C9_SeedStep /\ C9_OnlySeedCommit]_vars
  /\ [](C9_FourAfterEmpty)

\* a later call on a store that started empty has passed the seeding step
\* without inserting
C9_Witness ==
  origin = EmptyStore /\ ready /\ pcInit = "backfill"

\* C10: after init_db has completed, every committed thread has a non-null
\* category_id naming an existing category; a thread the store already had
\* keeps its category, or has the lowest-id category if it had none.
C10_EveryThreadHasCategory ==
  ready =>
    /\ \A t \in db.threads :
         /\ t.category_id # NULL
         /\ \E c \in db.categories : c.id = t.category_id
    /\ \A o \in origin.threads : \E t \in db.threads :
         /\ t.id = o.id
         /\ t.category_id =
              IF o.category_id = NULL
              THEN Min({c.id : c \in db.categories}) ELSE o.category_id

\* the legacy thread has been backfilled and a request has added a thread
C10_Witness ==
  ready /\ origin = LegacyStore /\ Cardinality(db.threads) = 2


\* C18: no step lowers a thread's last_activity_at, whatever the order and
\* interleaving of the requests and whatever the clock returns, and a commit
\* changes no thread but the one the request is about.
C18_ActivityNeverDecreases ==
  [][/\ \A t \in db.threads : \A u \in db'.threads :
          u.id = t.id => u.last_activity_at >= t.last_activity_at
     /\ \A r \in Reqs :
          (req[r].pc = "commit" /\ req'[r].pc = "idle" /\ db' = wtx) =>
            \A t \in db.threads : t.id # req[r].tid => t \in db'.threads]_vars

\* C19: no committed state holds a thread without a post or with
\* posts_count = 0, and when a create_thread request ends without its commit
\* after it has inserted the thread, the committed store is unchanged, the
\* transaction is gone and the thread is not in the store.
C19_CreateThreadAtomic ==
  /\ [](\A t \in db.threads :
          t.posts_count >= 1 /\ PostsOf(db, t.id) # {})
  /\ [][\A r \in Reqs :
         (/\ req[r].kind = "create_thread"
          /\ req[r].pc \in {"insert_post", "update", "commit"}
          /\ req'[r].pc = "idle"
          /\ db' # wtx) =>
           /\ db' = db
           /\ wtx' = db
           /\ lock' = 0
           /\ \A t \in db'.threads : t.id # req[r].tid]_vars

\* a create_thread request has inserted its thread, which has no post yet,
\* and the committed store does not have it
C19_Witness ==
  \E r \in Reqs :
    /\ req[r].kind = "create_thread"
    /\ req[r].pc = "insert_post"
    /\ lock = r
    /\ \E t \in wtx.threads : t.id = req[r].tid /\ t.posts_count = 0
    /\ \A t \in db.threads : t.id # req[r].tid
    /\ db.threads # {}

\* the store an uninterrupted init_db call makes of a store
Uninterrupted(store) ==
  LET tables == CreateTables(store)
      migrated == IF ColumnMissing(tables)
                  THEN [tables EXCEPT
                          !.schema = @ \cup {CategoryColumn, CategoryIndex}]
                  ELSE tables
      seeded == IF CategoriesEmpty(migrated)
                THEN InsertCategories(migrated, DefaultCategories)
                ELSE migrated
  IN IF FirstCategoryId(seeded) # NULL
     THEN BackfillCategory(seeded, FirstCategoryId(seeded))
     ELSE seeded

\* C20: whatever the points at which earlier init_db calls were interrupted,
\* no call raises an error (the column is not added twice, the categories
\* are not seeded twice) and the first call that completes leaves the store
\* an uninterrupted call would have left.
C20_InterruptedInitRecovers ==
  /\ [](~initError)
  /\ [][(~ready /\ ready') => db' = Uninterrupted(origin)]_vars

\* ----------------------------------------------- claims about one POST
\* the step that serves the recorded POST
ProbeStep == last = NoRequest /\ last' # NoRequest

StoreUntouched == db' = db /\ wtx' = wtx /\ lock' = lock /\ req' = req

\* the submitted csrf_token is missing, empty, or not the session's token
BadToken(l, sess) ==
  \/ ~l.token.present
  \/ l.token.val = <<>>
  \/ l.token.val # sess[l.s]

\* C3: a POST whose csrf_token is missing, empty or different from the
\* session's token is answered 400, no handler starts and the store is
\* unchanged, whatever the route, the target and the other fields.
C3_BadTokenRejected ==
  [][(ProbeStep /\ BadToken(last', session')) =>
       (last'.status = 400 /\ StoreUntouched)]_vars

\* a reply carrying another session's token has been rejected
C3_Witness ==
  /\ last.kind = "reply"
  /\ last.token.present
  /\ last.token.val \in Issued
  /\ last.token.val # session[last.s]
  /\ last.status = 400

\* C4: a POST that is the first request of a session is answered 400 with
\* the store unchanged, and the session has a token afterwards.
C4_FirstPostRejected ==
  [][(ProbeStep /\ session[last'.s] = NoToken) =>
       /\ session'[last'.s] # NoToken
       /\ last'.status = 400
       /\ StoreUntouched]_vars

\* a first POST that carried a token some other session had been issued
C4_Witness ==
  /\ last.kind = "create_thread"
  /\ ~last.had_token
  /\ last.token.present
  /\ last.token.val \in ServerTokens
  /\ last.status = 400

ValidToken(l, sess) == ~BadToken(l, sess)
ValidText(f) == f.present /\ strip(f.val) # <<>>

\* category_id is a decimal number that is the id of an existing category
NamesCategory(raw, cats) ==
  /\ raw.present
  /\ raw.val # <<>>
  /\ \A i \in 1..Len(raw.val) : raw.val[i] \in AsciiDigits
  /\ Len(raw.val) <= 9
  /\ \E c \in cats : c.id = IntValue(raw.val)

\* C6: createThread with a valid title and content is accepted with the
\* category its category_id names if that is an existing category, and with
\* the lowest-id category for any other category_id (omitted, non-numeric,
\* not parseable, out of range, unknown); it is answered 400 when there is
\* no category.
C6_CategoryFallback ==
  [][(/\ ProbeStep
      /\ last'.kind = "create_thread"
      /\ ValidToken(last', session')
      /\ ValidText(last'.form.title)
      /\ ValidText(last'.form.content)) =>
       IF db.categories = {}
       THEN last'.status = 400 /\ StoreUntouched
       ELSE /\ last'.status = 0
            /\ \E r \in Reqs :
                 /\ req'[r].pc = "insert_thread"
                 /\ req'[r].category_id =
                      IF NamesCategory(last'.form.category_id, db.categories)
                      THEN IntValue(last'.form.category_id.val)
                      ELSE Min({c.id : c \in db.categories})]_vars

C13_TokenIssuedOnce ==
  /\ [][\A s \in Sessions :
         session[s] # NoToken => session'[s] = session[s]]_vars
  /\ [][ProbeStep => session'[last'.s] # NoToken]_vars
  /\ [][(/\ ProbeStep
         /\ session[last'.s] # NoToken
         /\ last'.token = Field(session[last'.s])
         /\ ValidText(last'.form.content)
         /\ last'.kind = "create_thread" =>
              (ValidText(last'.form.title) /\ db.categories # {})) =>
          last'.status # 400]_vars

\* a comment carrying the token an earlier request issued has been accepted
C13_Witness ==
  /\ last.kind = "comment"
  /\ last.had_token
  /\ last.token = Field(session[last.s])
  /\ last.status = 0
  /\ \E r \in Reqs : req[r].kind = "comment"

\* the target of the recorded reply or comment is in the store
TargetExists(l, store) ==
  \/ l.kind = "create_thread"
  \/ l.kind = "reply" /\ \E t \in store.threads : t.id = l.target
  \/ l.kind = "comment" /\ \E p \in store.posts : p.id = l.target

\* the required fields of the recorded POST are not blank
RequiredGiven(l) ==
  /\ ValidText(l.form.content)
  /\ l.kind = "create_thread" => ValidText(l.form.title)

ContentBound(kind) == IF kind = "comment" THEN COMMENT_MAX ELSE POST_MAX

\* the request slot that took the recorded POST holds the trimmed and
\* clamped fields, with "anon" for a blank author
AcceptedClamped ==
  \E r \in Reqs :
    /\ req[r].pc = "idle"
    /\ req'[r].pc # "idle"
    /\ req'[r].kind = last'.kind
    /\ req'[r].content =
         clamp_text(strip(OrEmpty(last'.form.content)),
                    ContentBound(last'.kind))
    /\ req'[r].author =
         IF strip(OrEmpty(last'.form.author)) = <<>> THEN ANON
         ELSE clamp_text(strip(OrEmpty(last'.form.author)), AUTHOR_MAX)
    /\ last'.kind = "create_thread" =>
         req'[r].title =
           clamp_text(strip(OrEmpty(last'.form.title)), TITLE_MAX)

\* a POST with a valid token and its required fields is not answered 400
\* whatever the lengths of its fields and its author, and when it is
\* accepted it goes on with the clamped values
LengthNeverRejects ==
  (/\ ProbeStep
   /\ ValidToken(last', session')
   /\ RequiredGiven(last')
   /\ TargetExists(last', db)
   /\ db.categories # {}) =>
    /\ last'.status # 400
    /\ last'.kind # "create_thread" => last'.status = 0
    /\ last'.status = 0 => AcceptedClamped

RowsWithinBounds(store) ==
  /\ \A t \in store.threads : Len(t.title) \in 1..TITLE_MAX
  /\ \A p \in store.posts :
       Len(p.author) \in 1..AUTHOR_MAX /\ Len(p.content) \in 1..POST_MAX
  /\ \A c \in store.comments :
       Len(c.author) \in 1..AUTHOR_MAX /\ Len(c.content) \in 1..COMMENT_MAX

\* C15: in every store state, committed or inside a transaction, titles
\* have 1..140 characters, authors 1..32, post contents 1..5000 and comment
\* contents 1..2000, and a blank submitted author is stored as "anon".
C15_FieldBounds ==
  /\ RowsWithinBounds(db)
  /\ RowsWithinBounds(wtx)
  /\ \A r \in Reqs :
       (/\ req[r].pc # "idle"
        /\ last.kind = req[r].kind
        /\ strip(OrEmpty(last.form.author)) = <<>>) => req[r].author = ANON

\* a comment of exactly 2000 characters and an author of 32 are committed
C15_Witness ==
  \E c \in db.comments :
    Len(c.content) = COMMENT_MAX /\ Len(c.author) = AUTHOR_MAX

\* ------------------------------------------- claims about the secret store
\* C12 - resolve never fails and always returns a non-empty secret, for
\* every environment value, secret-file state and persistence outcome.
C12_AlwaysUsableSecret ==
  secOut.called => (~secOut.raised /\ secOut.ret # <<>>)

\* the file as the call found it could be read
CouldRead ==
  secOut.fs.stat = "ok" /\ secOut.file.exists /\ secOut.file.readable

\* C11 as stated - a non-empty SECRET_KEY is returned as is; otherwise the
\* secret stored in the file (its text without surrounding whitespace) is
\* returned; otherwise a new secret is generated and returned; and without
\* an environment secret every resolve after one that persisted a secret
\* returns that secret.
C11_PriorityOrder ==
  secOut.called =>
    /\ secEnv # <<>> => secOut.ret = secEnv
    /\ (secEnv = <<>> /\ CouldRead) =>
         secOut.ret = strip(secOut.file.content)
    /\ (secEnv = <<>> /\ ~CouldRead) => secOut.ret = Hex(secGen)
    /\ (secEnv = <<>> /\ secOut.saved # NoSecret) =>
         secOut.ret = secOut.saved

\* C11 (amended) - a SECRET_KEY that is non-empty after trimming is
\* returned trimmed and the file is left alone; otherwise, when the file
\* exists and can be read, its trimmed content is returned and the file is
\* left alone; otherwise a new secret, different from every earlier one, is
\* returned, and the file holds it when the filesystem accepted the write.
\* With a blank environment secret, every resolve that can read the file
\* after one that wrote a secret returns that secret.
C11_PriorityOrderTrimmed ==
  secOut.called =>
    /\ strip(secEnv) # <<>> =>
         (secOut.ret = strip(secEnv) /\ secFile = secOut.file)
    /\ (strip(secEnv) = <<>> /\ CouldRead) =>
         (secOut.ret = strip(secOut.file.content) /\ secFile = secOut.file)
    /\ (strip(secEnv) = <<>> /\ ~CouldRead) =>
         /\ secOut.ret = Hex(secGen)
         /\ secOut.ret # secOut.saved
         /\ (secOut.fs.stat = "ok" /\ secOut.fs.mkdir = "ok"
               /\ secOut.fs.write = "ok") =>
              (secFile.content = secOut.ret /\ secSaved = secOut.ret)
    /\ (strip(secEnv) = <<>> /\ CouldRead /\ secOut.saved # NoSecret) =>
         secOut.ret = secOut.saved

\* a second start reads back the secret the first start generated and wrote
C11_Witness ==
  /\ secOut.called
  /\ strip(secEnv) = <<>>
  /\ CouldRead
  /\ secOut.saved # NoSecret
  /\ secOut.ret = secOut.saved
  /\ secGen = 1

\* ----------------------------------------------- claims about clamp_text
\* C16: for every text s and max_len >= 1 the result has at most max_len
\* characters; it is s when s has at most max_len characters; otherwise it
\* is the first max_len - 1 characters of s without their trailing
\* whitespace, followed by one ellipsis.
C16_Clamp ==
  calc.op = "clamp" =>
    LET s == calc.s
        m == calc.max_len
        out == calc.out
        body == SubSeq(out, 1, Len(out) - 1)
    IN /\ Len(out) <= m
       /\ Len(s) <= m => out = s
       /\ Len(s) > m =>
            /\ out # <<>>
            /\ out[Len(out)] = ELLIPSIS
            /\ Len(body) <= m - 1
            /\ body = SubSeq(s, 1, Len(body))
            /\ body # <<>> => body[Len(body)] \notin Whitespace
            /\ \A i \in (Len(body) + 1)..(m - 1) : s[i] \in Whitespace

\* a text was cut, lost trailing whitespace and got the ellipsis
C16_Witness ==
  /\ calc.op = "clamp"
  /\ Len(calc.s) > calc.max_len
  /\ calc.max_len >= 3
  /\ Len(calc.out) = calc.max_len - 1
  /\ calc.out[1] = "a"

\* ----------------------------------------------- claims about pagination
\* the page parameter is not a number, or is zero or negative
InvalidPage(raw) ==
  /\ raw.present
  /\ \/ \E i \in 1..Len(raw.val) : raw.val[i] \notin AsciiDigits \cup {" ", "+"}
     \/ \A i \in 1..Len(raw.val) : raw.val[i] \notin AsciiDigits \ {"0"}

\* the least n >= 1 with n * per_page >= total
PagesFor(total, per_page) ==
  CHOOSE n \in 1..(total + 1) :
    n * per_page >= total /\ (n = 1 \/ (n - 1) * per_page < total)

\* the served page shows the right rows of the right number of pages
PageShown(c) ==
  LET pages == PagesFor(c.total, c.per_page)
      beyond == Len(c.res.page) > 9 \/ IntValue(c.res.page) > pages
      p == IntValue(c.res.page)
  IN /\ InvalidPage(c.raw) => c.res.page = <<"1">>
     /\ c.res.total_pages = pages
     /\ beyond => c.res.items = <<>>
     /\ ~beyond =>
          /\ c.res.items # <<>> \/ c.total = 0
          /\ \A i \in 1..Len(c.res.items) :
               c.res.items[i] = (p - 1) * c.per_page + i
          /\ Len(c.res.items) =
               Min({c.per_page, c.total - (p - 1) * c.per_page})

\* C17: a page parameter that is not a number, zero or negative is served
\* as page 1; no page parameter produces an error; total_pages is
\* max(ceil(total / per_page), 1); a page beyond total_pages shows no rows;
\* page p shows rows (p-1)*per_page+1 .. p*per_page of the ordered result.
C17_Pagination ==
  (calc.op = "page" /\ calc.res # NoPage) =>
    (calc.res.status = 200 /\ PageShown(calc))

====
